---- MODULE Spec2Model ----
(***************************************************************************)
(* Model of the voting-war client (App.jsx, the WebSocket version): the    *)
(* optimistic vote, its confirmation or revert, the authoritative          *)
(* snapshots arriving by pull, by vote response and by push, and the       *)
(* push-channel life cycle.                                                *)
(*                                                                         *)
(* Every handler of the component is a pure operator from the component's  *)
(* state (a record of its React state, its refs and the requests it has in *)
(* flight) to the state after the handler has run to completion; every     *)
(* event of the JavaScript event loop is one action that applies a         *)
(* handler.                                                                *)
(***************************************************************************)
EXTENDS Integers, Sequences, FiniteSets, TLC

(***************************************************************************)
(* JavaScript values.  A value is a record of one shape, so that values of *)
(* different JavaScript types can be compared: `type` is the typeof class, *)
(* a number is num + (IF half THEN 1/2 ELSE 0), a string is `str`.         *)
(***************************************************************************)
Undefined == [type |-> "undefined", num |-> 0, half |-> FALSE, str |-> ""]
Null == [type |-> "null", num |-> 0, half |-> FALSE, str |-> ""]
Num(n) == [type |-> "number", num |-> n, half |-> FALSE, str |-> ""]
NumAndHalf(n) == [type |-> "number", num |-> n, half |-> TRUE, str |-> ""]
Str(s) == [type |-> "string", num |-> 0, half |-> FALSE, str |-> s]

\* typeof v === 'number'
IsNumber(v) == v.type = "number"

\* the truthiness test of `if (v)`
Truthy(v) ==
  CASE v.type = "number" -> (v.num # 0 \/ v.half)
    [] v.type = "string" -> v.str # ""
    [] OTHER -> FALSE

\* v + k for a number v and an integer k
Plus(v, k) == [v EXCEPT !.num = @ + k]

\* v > w for numbers v and w
Greater(v, w) == v.num > w.num \/ (v.num = w.num /\ v.half /\ ~w.half)

\* a number that is an integer >= 0
IsNonNegInt(v) == IsNumber(v) /\ ~v.half /\ v.num >= 0

Teams == {"team1", "team2"}

(***************************************************************************)
(* Bounds of the model.                                                    *)
(***************************************************************************)
\* handleVote calls accepted in one run
MaxVotes == 1
\* GET /scores requests in flight at once
MaxPulls == 1
\* WebSocket objects created in one run
MaxSockets == 3
\* the greatest score a snapshot carries
MaxScore == 23

(***************************************************************************)
(* Module-level constants of App.jsx.                                      *)
(***************************************************************************)
POLL_INTERVAL == 2000

HYPE_MESSAGES ==
  << "IT'S HEATING UP!", "UNSTOPPABLE!", "ABSOLUTE CARNAGE!", "TO THE MOON!",
     "NO MERCY!", "WHO WILL WIN?!", "FIGHT FIGHT FIGHT!", "TOTAL DESTRUCTION!",
     "TIDAL WAVE!", "LEGENDARY!" >>

OFFLINE_MESSAGES ==
  << "VOTE NOT COUNTED!", "NO CONNECTION!", "SERVER IS SLEEPING...",
     "PLUG IT BACK IN!", "SMASH IS USELESS RN", "NOTHING HAPPENED!",
     "DEAD SERVER!" >>

VICTORY_MESSAGES ==
  << "ABSOLUTE DOMINATION!", "BOW TO THE CHAMPION!", "TOTAL ANNIHILATION!",
     "FLAWLESS VICTORY!", "THEY NEVER STOOD A CHANCE!" >>

\* the two strings setError is called with, and its null
NoError == "null"
ErrSync == "Server offline - votes will sync when restored."
ErrRevert == "Server offline - reverting vote..."

(***************************************************************************)
(* Payloads: what response.data (axios) or JSON.parse(event.data) (push    *)
(* channel) can be.  kind "object" is a JSON object, a field it does not   *)
(* carry reads as Undefined; kind "null" is the JSON value null, reading a *)
(* property of it throws a TypeError; kind "primitive" is a string or a    *)
(* number (every property of it reads as undefined).                       *)
(***************************************************************************)
Obj(t1, t2, ms, w, mp, cd, ws) ==
  [kind |-> "object", team1 |-> t1, team2 |-> t2, matchState |-> ms,
   winner |-> w, matchesPlayed |-> mp, countdown |-> cd, winScore |-> ws]

NullBody == [Obj(Undefined, Undefined, Undefined, Undefined, Undefined,
                 Undefined, Undefined) EXCEPT !.kind = "null"]
TextBody == [Obj(Undefined, Undefined, Undefined, Undefined, Undefined,
                 Undefined, Undefined) EXCEPT !.kind = "primitive"]

\* {team1, team2} alone, the least the pull contract promises
ScoresOnly == Obj(Num(1), Num(0), Undefined, Undefined, Undefined, Undefined,
                  Undefined)
\* the full snapshot of a match that has just been won
Victory == Obj(Num(2), Num(1), Str("victory"), Str("team1"), Num(1), Num(3),
               Num(50))
\* a push that carries the match fields only
Countdown == Obj(Undefined, Undefined, Str("countdown"), Str("team1"), Num(1),
                 Num(3), Num(50))
\* the full snapshot after the server has reset the match
Reset == Obj(Num(0), Num(0), Str("active"), Null, Num(0), Num(0), Num(100))
\* scores that are numbers but not non-negative integers
BadScores == Obj(Num(-1), NumAndHalf(1), Undefined, Undefined, Undefined,
                 Undefined, Undefined)
\* one score missing, and a matchState outside the three lifecycle values
HalfScores == Obj(Num(2), Undefined, Str("paused"), Undefined, Undefined,
                  Undefined, Undefined)
\* every field present with a value of the wrong type
TypeMismatch == Obj(Str("2"), Num(1), Str(""), Undefined, Str("1"), Null,
                    Str("100"))

\* event.data that is not JSON: JSON.parse throws
InvalidJson == [Obj(Undefined, Undefined, Undefined, Undefined, Undefined,
                    Undefined, Undefined) EXCEPT !.kind = "invalid"]

ObjectPayloads ==
  {ScoresOnly, Victory, Countdown, Reset, BadScores, HalfScores, TypeMismatch}

\* the full snapshots: every field present and valid
FullSnapshots == {Victory, Reset}

\* the server's state is still changing
Unsettled == [Obj(Undefined, Undefined, Undefined, Undefined, Undefined,
                  Undefined, Undefined) EXCEPT !.kind = "unsettled"]

\* {team1, team2} with every pair of scores up to the bound
ScoreSnapshots ==
  {Obj(Num(a), Num(b), Undefined, Undefined, Undefined, Undefined, Undefined) :
     a \in 0..MaxScore, b \in 0..MaxScore}

\* what a request that succeeded at the transport level can deliver
Payloads == ObjectPayloads \cup {NullBody, TextBody}

\* what a push message can carry
Messages == Payloads \cup {InvalidJson}

\* data.team1 (any property read) on null throws
Throws(data) == data.kind = "null"

\* both score fields pass the typeof test of applyServerState
HasScores(data) == IsNumber(data.team1) /\ IsNumber(data.team2)

(***************************************************************************)
(* The state.                                                              *)
(***************************************************************************)
VARIABLES
  \* React state of App (useState)
  scores, error, isOnline, hypeMessage, matchState, winner, matchesPlayed,
  countdown, winScore, victoryMessage,
  \* refs of App (useRef)
  pendingUpdates, wsRef, reconnectTimerRef,
  \* whether the effect is mounted, and whether the interval it has set is
  \* still to fire
  mounted, interval,
  \* the environment: POST /vote requests in flight per team, and the number
  \* issued so far; GET /scores requests in flight; the readyState of every
  \* WebSocket created so far; the reconnect timeouts that are pending
  votesInFlight, posted, pullsInFlight, sockets, timers,
  \* history: the number of handleVote calls that passed the matchState
  \* guard, and whether a handleVote call has returned at that guard
  accepted, dropped,
  \* the state of the server once it has stopped changing, Unsettled before
  server

vars ==
  << scores, error, isOnline, hypeMessage, matchState, winner, matchesPlayed,
     countdown, winScore, victoryMessage, pendingUpdates, wsRef,
     reconnectTimerRef, mounted, interval, votesInFlight, posted,
     pullsInFlight, sockets, timers, accepted, dropped, server >>

\* the component and its environment as one record, the argument and the
\* result of every handler
State ==
  [scores |-> scores, error |-> error, isOnline |-> isOnline,
   hypeMessage |-> hypeMessage, matchState |-> matchState, winner |-> winner,
   matchesPlayed |-> matchesPlayed, countdown |-> countdown,
   winScore |-> winScore, victoryMessage |-> victoryMessage,
   pendingUpdates |-> pendingUpdates, wsRef |-> wsRef,
   reconnectTimerRef |-> reconnectTimerRef, mounted |-> mounted,
   interval |-> interval,
   votesInFlight |-> votesInFlight, posted |-> posted,
   pullsInFlight |-> pullsInFlight, sockets |-> sockets, timers |-> timers]

\* the next state is the record s (bound once, so that the handler that
\* yields it is evaluated once)
Becomes(s) ==
  \E n \in {s} :
    /\ scores' = n.scores
    /\ error' = n.error
    /\ isOnline' = n.isOnline
    /\ hypeMessage' = n.hypeMessage
    /\ matchState' = n.matchState
    /\ winner' = n.winner
    /\ matchesPlayed' = n.matchesPlayed
    /\ countdown' = n.countdown
    /\ winScore' = n.winScore
    /\ victoryMessage' = n.victoryMessage
    /\ pendingUpdates' = n.pendingUpdates
    /\ wsRef' = n.wsRef
    /\ reconnectTimerRef' = n.reconnectTimerRef
    /\ interval' = n.interval
    /\ server' = server
    /\ mounted' = n.mounted
    /\ votesInFlight' = n.votesInFlight
    /\ posted' = n.posted
    /\ pullsInFlight' = n.pullsInFlight
    /\ sockets' = n.sockets
    /\ timers' = n.timers

\* { team1: 0, team2: 0 }
ZeroPair == [t \in Teams |-> 0]

\* the two outcomes of Math.random() the model draws: one that selects the
\* first message of a pool and one that selects the last
RandomDraws == {"low", "high"}
Pick(pool, x) == pool[IF x = "low" THEN 1 ELSE Len(pool)]

\* the state after the useState and useRef initialisers, before the effect
Init ==
  /\ scores = [t \in Teams |-> Num(0)]
  /\ error = NoError
  /\ isOnline = TRUE
  /\ hypeMessage = HYPE_MESSAGES[1]
  /\ matchState = Str("active")
  /\ winner = Null
  /\ matchesPlayed = Num(0)
  /\ countdown = Num(0)
  /\ winScore = Num(100)
  /\ victoryMessage = VICTORY_MESSAGES[1]
  /\ pendingUpdates = ZeroPair
  /\ wsRef = 0
  /\ reconnectTimerRef = 0
  /\ mounted = FALSE
  /\ interval = FALSE
  /\ server = Unsettled
  /\ votesInFlight = ZeroPair
  /\ posted = 0
  /\ pullsInFlight = 0
  /\ sockets = << >>
  /\ timers = {}
  /\ accepted = 0
  /\ dropped = FALSE

(***************************************************************************)
(* State Reconciler.                                                       *)
(***************************************************************************)
\* applyServerState with the pending ledger left as it was
applyServerStateKeepsLedger(s, data, x) ==
  LET s1 == IF HasScores(data)
            THEN [s EXCEPT !.scores = [team1 |-> data.team1,
                                       team2 |-> data.team2],
                           !.isOnline = TRUE,
                           !.error = NoError]
            ELSE s
  IN  IF Truthy(data.matchState)
      THEN [s1 EXCEPT !.matchState = data.matchState] ELSE s1

\* applyServerState with the snapshot's scores added to the local ones
applyServerStateAdditive(s, data, x) ==
  LET s1 == IF HasScores(data)
            THEN [s EXCEPT !.scores = [team1 |-> Plus(@.team1, data.team1.num),
                                       team2 |-> Plus(@.team2, data.team2.num)],
                           !.isOnline = TRUE,
                           !.error = NoError,
                           !.pendingUpdates = ZeroPair]
            ELSE s
  IN  IF Truthy(data.matchState)
      THEN [s1 EXCEPT !.matchState = data.matchState] ELSE s1

\* applyServerState that drops a snapshot without valid scores as a whole
applyServerStateAllOrNothing(s, data, x) ==
  IF HasScores(data)
  THEN [s EXCEPT !.scores = [team1 |-> data.team1, team2 |-> data.team2],
                 !.isOnline = TRUE,
                 !.error = NoError,
                 !.pendingUpdates = ZeroPair,
                 !.matchState = IF Truthy(data.matchState)
                                THEN data.matchState ELSE @]
  ELSE s

\* applyServerState that infers the countdown phase from a running countdown
applyServerStateInfersPhase(s, data, x) ==
  LET s1 == IF HasScores(data)
            THEN [s EXCEPT !.scores = [team1 |-> data.team1,
                                       team2 |-> data.team2],
                           !.isOnline = TRUE,
                           !.error = NoError,
                           !.pendingUpdates = ZeroPair]
            ELSE s
      s2 == IF Truthy(data.matchState)
            THEN [s1 EXCEPT !.matchState = data.matchState] ELSE s1
      s3 == IF data.winner # Undefined
            THEN [s2 EXCEPT !.winner = data.winner] ELSE s2
      s4 == IF IsNumber(data.matchesPlayed)
            THEN [s3 EXCEPT !.matchesPlayed = data.matchesPlayed] ELSE s3
      s5 == IF IsNumber(data.countdown)
            THEN [s4 EXCEPT !.countdown = data.countdown,
                            !.matchState = IF Greater(data.countdown, Num(0))
                                           THEN Str("countdown") ELSE @]
            ELSE s4
  IN  IF IsNumber(data.winScore)
      THEN [s5 EXCEPT !.winScore = data.winScore] ELSE s5

\* applyServerState(data), for a data whose properties can be read; x is the
\* outcome of its Math.random()
applyServerState(s, data, x) ==
  LET s1 == IF HasScores(data)
            THEN [s EXCEPT !.scores = [team1 |-> data.team1,
                                       team2 |-> data.team2],
                           !.isOnline = TRUE,
                           !.error = NoError,
                           !.pendingUpdates = ZeroPair]
            ELSE s
      s2 == IF Truthy(data.matchState)
            THEN [s1 EXCEPT !.matchState = data.matchState] ELSE s1
      s3 == IF data.winner # Undefined
            THEN [s2 EXCEPT !.winner = data.winner] ELSE s2
      s4 == IF IsNumber(data.matchesPlayed)
            THEN [s3 EXCEPT !.matchesPlayed = data.matchesPlayed] ELSE s3
      s5 == IF IsNumber(data.countdown)
            THEN [s4 EXCEPT !.countdown = data.countdown] ELSE s4
      s6 == IF IsNumber(data.winScore)
            THEN [s5 EXCEPT !.winScore = data.winScore] ELSE s5
  IN  IF data.matchState = Str("victory") \/ data.matchState = Str("countdown")
      THEN [s6 EXCEPT !.victoryMessage = Pick(VICTORY_MESSAGES, x)]
      ELSE s6

\* the catch block of fetchScores showing the error without going offline
fetchScoresCatchStaysOnline(s) == [s EXCEPT !.error = ErrSync]

\* the catch block of fetchScores
fetchScoresCatch(s) == [s EXCEPT !.isOnline = FALSE, !.error = ErrSync]

\* fetchScores applying its response only while the push channel is not open
fetchScoresThenAsFallback(s, data, x) ==
  IF s.wsRef # 0 /\ s.sockets[s.wsRef] = "OPEN" THEN s
  ELSE IF Throws(data) THEN fetchScoresCatch(s)
  ELSE applyServerState(s, data, x)

\* fetchScores after axios.get has resolved with response.data = data
fetchScoresThen(s, data, x) ==
  IF Throws(data) THEN fetchScoresCatch(s) ELSE applyServerState(s, data, x)

\* the catch block of postVote with the pending ledger left as it was
postVoteCatchKeepsLedger(s, team) ==
  [s EXCEPT !.isOnline = FALSE,
            !.error = ErrRevert,
            !.scores[team] = Plus(@, -1)]

\* the catch block of postVote sending the vote again
postVoteCatchRetry(s, team) ==
  [s EXCEPT !.isOnline = FALSE,
            !.error = ErrRevert,
            !.scores[team] = Plus(@, -1),
            !.pendingUpdates[team] = @ - 1,
            !.votesInFlight[team] = @ + 1,
            !.posted = @ + 1]

\* the catch block of postVote(team)
postVoteCatch(s, team) ==
  [s EXCEPT !.isOnline = FALSE,
            !.error = ErrRevert,
            !.scores[team] = Plus(@, -1),
            !.pendingUpdates[team] = @ - 1]

\* postVote discarding a response whose scores are behind the ones shown
postVoteThenUnlessBehind(s, team, data, x) ==
  IF Throws(data) THEN postVoteCatch(s, team)
  ELSE IF HasScores(data)
          /\ data.team1.num + data.team2.num
               < s.scores.team1.num + s.scores.team2.num
  THEN s
  ELSE applyServerState(s, data, x)

\* postVote(team) after axios.post has resolved with response.data = data
postVoteThen(s, team, data, x) ==
  IF Throws(data) THEN postVoteCatch(s, team)
  ELSE applyServerState(s, data, x)

\* postVote(team) up to its await: the request is issued
postVote(s, team) ==
  [s EXCEPT !.votesInFlight[team] = @ + 1, !.posted = @ + 1]

\* handleVote without the entry in the pending ledger
handleVoteNoLedger(s, team, x) ==
  IF s.matchState # Str("active") THEN s
  ELSE postVote([s EXCEPT !.scores[team] = Plus(@, 1)], team)

\* handleVote guarded by the match-over flag instead of matchState !== 'active'
handleVoteUnlessOver(s, team, x) ==
  IF s.matchState = Str("victory") \/ s.matchState = Str("countdown") THEN s
  ELSE postVote([s EXCEPT !.scores[team] = Plus(@, 1),
                          !.pendingUpdates[team] = @ + 1], team)

\* handleVote without its guard on matchState
handleVoteUnguarded(s, team, x) ==
  postVote(
    [s EXCEPT !.scores[team] = Plus(@, 1),
              !.pendingUpdates[team] = @ + 1,
              !.hypeMessage = IF s.isOnline
                              THEN Pick(HYPE_MESSAGES, x)
                              ELSE Pick(OFFLINE_MESSAGES, x)],
    team)

\* handleVote taking the vote from the other team, as a tug of war
handleVoteTugOfWar(s, team, x) ==
  IF s.matchState # Str("active") THEN s
  ELSE postVote(
         [s EXCEPT !.scores =
                     [t \in Teams |-> IF t = team THEN Plus(s.scores[t], 1)
                                      ELSE Plus(s.scores[t], -1)],
                   !.pendingUpdates[team] = @ + 1,
                   !.hypeMessage = IF s.isOnline
                                   THEN Pick(HYPE_MESSAGES, x)
                                   ELSE Pick(OFFLINE_MESSAGES, x)],
         team)

\* handleVote(team); x is the outcome of its Math.random()
handleVote(s, team, x) ==
  IF s.matchState # Str("active") THEN s
  ELSE postVote(
         [s EXCEPT !.scores[team] = Plus(@, 1),
                   !.pendingUpdates[team] = @ + 1,
                   !.hypeMessage = IF s.isOnline
                                   THEN Pick(HYPE_MESSAGES, x)
                                   ELSE Pick(OFFLINE_MESSAGES, x)],
         team)

\* getLeader giving a tie to team1
getLeaderTeam1OnTie(s) ==
  CASE Greater(s.scores.team2, s.scores.team1) -> "team2"
    [] OTHER -> "team1"

\* the derived views computed on every render
getLeader(s) ==
  CASE Greater(s.scores.team1, s.scores.team2) -> "team1"
    [] Greater(s.scores.team2, s.scores.team1) -> "team2"
    [] OTHER -> "tie"

isMatchOver(s) ==
  s.matchState = Str("victory") \/ s.matchState = Str("countdown")

(***************************************************************************)
(* The percentages.  JavaScript numbers are IEEE 754 doubles: a positive    *)
(* double is a significand of 53 bits (most significant first, the first    *)
(* one set) and an exponent, and stands for significand * 2^exp.  The       *)
(* quotient and the product are each rounded to the nearest double, ties to *)
(* the even significand.                                                    *)
(***************************************************************************)
Precision == 53

\* the value of a (short) sequence of bits
RECURSIVE BitsValue(_)
BitsValue(bits) ==
  IF bits = <<>> THEN 0
  ELSE 2 * BitsValue(SubSeq(bits, 1, Len(bits) - 1)) + bits[Len(bits)]

\* the bits plus one (not all of them are set)
Successor(bits) ==
  LET z == CHOOSE i \in 1..Len(bits) :
             bits[i] = 0 /\ \A j \in (i + 1)..Len(bits) : bits[j] = 1
  IN  [i \in 1..Len(bits) |-> IF i < z THEN bits[i]
                              ELSE IF i = z THEN 1 ELSE 0]

\* round to nearest, ties to even: the bits kept, the first bit dropped, and
\* whether a later dropped bit is set
RoundToNearest(bits, roundBit, sticky, exp) ==
  IF roundBit = 1 /\ (sticky \/ bits[Precision] = 1)
  THEN IF \A i \in 1..Precision : bits[i] = 1
       THEN [bits |-> [i \in 1..Precision |-> IF i = 1 THEN 1 ELSE 0],
             exp |-> exp + 1]
       ELSE [bits |-> Successor(bits), exp |-> exp]
  ELSE [bits |-> bits, exp |-> exp]

\* 2^n modulo t, for n < 80 (the powers are taken twenty bits at a time, to
\* stay within the integers of the checker)
PowerOfTwoMod(n, t) ==
  LET c == 2^20 % t
  IN  ((2^(n % 20) % t)
        * (IF n < 20 THEN 1
           ELSE IF n < 40 THEN c
           ELSE IF n < 60 THEN (c * c) % t
           ELSE (((c * c) % t) * c) % t)) % t

\* what is left of a / t after its first n bits after the binary point,
\* for a < t
QuotientRest(a, t, n) == (a * PowerOfTwoMod(n, t)) % t

\* the first n bits of a / t after the binary point
QuotientBits(a, t, n) ==
  [i \in 1..n |-> IF 2 * QuotientRest(a, t, i - 1) >= t THEN 1 ELSE 0]

\* the zero bits of a / t between the binary point and its first set bit
LeadingZeros(a, t) ==
  CHOOSE k \in 0..24 :
    /\ 2 * QuotientRest(a, t, k) >= t
    /\ \A j \in 0..(k - 1) : 2 * QuotientRest(a, t, j) < t

\* a / t as a double, for 0 < a < t
Divide(a, t) ==
  LET k == LeadingZeros(a, t)
      q == QuotientBits(a, t, k + Precision + 1)
  IN  RoundToNearest(SubSeq(q, k + 1, k + Precision), q[k + Precision + 1],
                     QuotientRest(a, t, k + Precision + 1) # 0,
                     -(k + Precision))

\* the n bits of the integer v < 2^n
ToBits(v, n) == [i \in 1..n |-> (v \div 2^(n - i)) % 2]

\* d * 100 as a double; the significand is multiplied in three limbs of 17,
\* 18 and 18 bits, the carries going up
Times100(d) ==
  LET low == BitsValue(SubSeq(d.bits, 36, 53)) * 100
      mid == BitsValue(SubSeq(d.bits, 18, 35)) * 100 + low \div 2^18
      high == BitsValue(SubSeq(d.bits, 1, 17)) * 100 + mid \div 2^18
      p == ToBits(high, 24) \o ToBits(mid % 2^18, 18)
             \o ToBits(low % 2^18, 18)
      top == IF p[1] = 1 THEN 1 ELSE 2
  IN  RoundToNearest(SubSeq(p, top, top + Precision - 1), p[top + Precision],
                     \E i \in (top + Precision + 1)..Len(p) : p[i] = 1,
                     d.exp + Len(p) - (top + Precision - 1))

\* Math.round(d) for a double 0 < d < 2^52: floor(d + 0.5), exactly
MathRound(d) ==
  LET n == Precision + d.exp
  IN  (IF n >= 1 THEN BitsValue(SubSeq(d.bits, 1, n)) ELSE 0)
      + (IF n >= 0 THEN d.bits[n + 1] ELSE 0)

\* Math.round((a / t) * 100) for integers 0 <= a <= t, 0 < t
Percentage(a, t) ==
  IF a = 0 THEN 0
  ELSE IF a = t THEN 100
  ELSE MathRound(Times100(Divide(a, t)))

\* the derived values of a render, for scores that are non-negative integers
totalVotes(s) == s.scores.team1.num + s.scores.team2.num

team1Pct(s) ==
  IF totalVotes(s) > 0 THEN Percentage(s.scores.team1.num, totalVotes(s))
  ELSE 50

team2Pct(s) ==
  IF totalVotes(s) > 0 THEN Percentage(s.scores.team2.num, totalVotes(s))
  ELSE 50

(***************************************************************************)
(* Connection Manager.                                                     *)
(***************************************************************************)
\* ws.close() on socket i
close(s, i) ==
  IF s.sockets[i] \in {"CONNECTING", "OPEN"}
  THEN [s EXCEPT !.sockets[i] = "CLOSING"] ELSE s

\* connectWebSocket()
connectWebSocket(s) ==
  IF s.wsRef # 0 /\ s.sockets[s.wsRef] = "OPEN" THEN s
  ELSE [s EXCEPT !.sockets = Append(@, "CONNECTING"),
                 !.wsRef = Len(s.sockets) + 1]

\* connectWebSocket() when `new WebSocket(WS_URL)` throws: the catch block
connectWebSocketBlocked(s) ==
  IF s.wsRef # 0 /\ s.sockets[s.wsRef] = "OPEN" THEN s
  ELSE [s EXCEPT !.isOnline = FALSE]

\* ws.onopen
onopen(s) == [s EXCEPT !.isOnline = TRUE, !.error = NoError]

\* ws.onmessage treating a message it cannot apply as a failed transport
onmessageSurfaces(s, raw, x) ==
  IF raw.kind = "invalid" \/ Throws(raw) THEN fetchScoresCatch(s)
  ELSE applyServerState(s, raw, x)

\* ws.onmessage with event.data = raw
onmessage(s, raw, x) ==
  IF raw.kind = "invalid" \/ Throws(raw) THEN s
  ELSE applyServerState(s, raw, x)

\* ws.onclose that also reports the client offline
oncloseGoesOffline(s, i) ==
  [s EXCEPT !.wsRef = 0, !.reconnectTimerRef = i, !.timers = @ \cup {i},
            !.isOnline = FALSE, !.error = ErrSync]

\* ws.onclose of socket i: the timeout it sets is named after the socket
onclose(s, i) ==
  [s EXCEPT !.wsRef = 0, !.reconnectTimerRef = i, !.timers = @ \cup {i}]

\* ws.onerror of socket i
onerror(s, i) ==
  close([s EXCEPT !.isOnline = FALSE, !.error = ErrSync], i)

\* fetchScores() that also counts the countdown down locally
fetchScoresCountsDown(s) ==
  [s EXCEPT !.pullsInFlight = @ + 1,
            !.countdown = IF Greater(@, Num(0)) THEN Plus(@, -1) ELSE @]

\* fetchScores() leaving the pull to the push channel while it is open
fetchScoresUnlessOpen(s) ==
  IF s.wsRef # 0 /\ s.sockets[s.wsRef] = "OPEN" THEN s
  ELSE [s EXCEPT !.pullsInFlight = @ + 1]

\* fetchScores() up to its await: the request is issued
fetchScores(s) == [s EXCEPT !.pullsInFlight = @ + 1]

\* the body of the effect
effect(s) ==
  [connectWebSocket(fetchScores(s)) EXCEPT !.mounted = TRUE,
                                           !.interval = TRUE]

\* the cleanup the effect returns, leaving the interval set
cleanupKeepsInterval(s) ==
  LET s1 == [s EXCEPT !.mounted = FALSE,
                      !.timers = IF s.reconnectTimerRef # 0
                                 THEN @ \ {s.reconnectTimerRef} ELSE @]
  IN  IF s1.wsRef # 0 THEN close(s1, s1.wsRef) ELSE s1

\* the cleanup the effect returns
cleanup(s) ==
  LET s1 == [s EXCEPT !.mounted = FALSE,
                      !.interval = FALSE,
                      !.timers = IF s.reconnectTimerRef # 0
                                 THEN @ \ {s.reconnectTimerRef} ELSE @]
  IN  IF s1.wsRef # 0 THEN close(s1, s1.wsRef) ELSE s1

\* connectWebSocket() can run within the model's bound on sockets
CanConnect ==
  \/ wsRef # 0 /\ sockets[wsRef] = "OPEN"
  \/ Len(sockets) < MaxSockets

(***************************************************************************)
(* Events.                                                                 *)
(***************************************************************************)
history == << accepted, dropped >>

\* the component mounts: the effect runs
Mount ==
  /\ ~mounted
  /\ pullsInFlight < MaxPulls
  /\ CanConnect
  /\ Becomes(effect(State))
  /\ UNCHANGED history

\* the component unmounts: the cleanup runs
Unmount ==
  /\ mounted
  /\ Becomes(cleanup(State))
  /\ UNCHANGED history

\* the interval set by the effect fires
Tick ==
  /\ interval
  /\ pullsInFlight < MaxPulls
  /\ Becomes(fetchScores(State))
  /\ UNCHANGED history

\* a GET /scores succeeds
PullResponse(bodies, draws) ==
  /\ pullsInFlight > 0
  /\ \E data \in bodies, x \in draws :
       /\ Becomes(fetchScoresThen([State EXCEPT !.pullsInFlight = @ - 1],
                                  data, x))
  /\ UNCHANGED history

\* a GET /scores fails (network error, timeout, non-2xx status)
PullFailure ==
  /\ pullsInFlight > 0
  /\ Becomes(fetchScoresCatch([State EXCEPT !.pullsInFlight = @ - 1]))
  /\ UNCHANGED history

\* the user clicks the button of a team
Click(draws) ==
  \E team \in Teams, x \in draws :
    /\ mounted
    /\ matchState = Str("active") => accepted < MaxVotes
    /\ Becomes(handleVote(State, team, x))
    /\ accepted' = IF matchState = Str("active") THEN accepted + 1
                   ELSE accepted
    /\ dropped' = (dropped \/ matchState # Str("active"))

\* a POST /vote succeeds
VoteResponse(bodies, draws) ==
  \E team \in Teams, data \in bodies, x \in draws :
    /\ votesInFlight[team] > 0
    /\ Becomes(postVoteThen([State EXCEPT !.votesInFlight[team] = @ - 1],
                            team, data, x))
    /\ UNCHANGED history

\* a POST /vote fails (network error, timeout, non-2xx status)
VoteFailure ==
  \E team \in Teams :
    /\ votesInFlight[team] > 0
    /\ Becomes(postVoteCatch([State EXCEPT !.votesInFlight[team] = @ - 1],
                             team))
    /\ UNCHANGED history

\* the handshake of a socket completes
SocketOpen ==
  \E i \in DOMAIN sockets :
    /\ sockets[i] = "CONNECTING"
    /\ Becomes(onopen([State EXCEPT !.sockets[i] = "OPEN"]))
    /\ UNCHANGED history

\* the server pushes a message on an open socket
SocketMessage(texts, draws) ==
  \E i \in DOMAIN sockets, raw \in texts, x \in draws :
    /\ sockets[i] = "OPEN"
    /\ Becomes(onmessage(State, raw, x))
    /\ UNCHANGED history

\* a socket's connection fails: one task sets readyState to CLOSED and fires
\* the error event and then the close event
SocketFail ==
  \E i \in DOMAIN sockets :
    /\ sockets[i] \in {"CONNECTING", "OPEN", "CLOSING"}
    /\ Becomes(onclose(onerror([State EXCEPT !.sockets[i] = "CLOSED"], i), i))
    /\ UNCHANGED history

\* a socket's connection closes cleanly: the close event alone
SocketClose ==
  \E i \in DOMAIN sockets :
    /\ sockets[i] \in {"OPEN", "CLOSING"}
    /\ Becomes(onclose([State EXCEPT !.sockets[i] = "CLOSED"], i))
    /\ UNCHANGED history

\* a reconnect timeout fires
ReconnectTimer ==
  \E k \in timers :
    /\ CanConnect
    /\ Becomes(connectWebSocket([State EXCEPT !.timers = @ \ {k}]))
    /\ UNCHANGED history

\* the component mounts and the WebSocket constructor throws
MountBlocked ==
  /\ ~mounted
  /\ pullsInFlight < MaxPulls
  /\ Becomes([connectWebSocketBlocked(fetchScores(State))
                EXCEPT !.mounted = TRUE, !.interval = TRUE])
  /\ UNCHANGED history

\* a reconnect timeout fires and the WebSocket constructor throws
ReconnectTimerBlocked ==
  \E k \in timers :
    /\ Becomes(connectWebSocketBlocked([State EXCEPT !.timers = @ \ {k}]))
    /\ UNCHANGED history

\* the lean inputs of the whole client: a won match, its reset, and a body
\* that is not a snapshot
LeanPayloads == {Victory, Reset, TextBody}

Next ==
  \/ Mount
  \/ Unmount
  \/ Tick
  \/ PullResponse(LeanPayloads, {"low"})
  \/ PullFailure
  \/ Click({"low"})
  \/ VoteResponse(LeanPayloads, {"low"})
  \/ VoteFailure
  \/ SocketOpen
  \/ SocketMessage(LeanPayloads \cup {InvalidJson}, {"low"})
  \/ SocketFail
  \/ SocketClose
  \/ ReconnectTimer

\* the whole client
Spec == Init /\ [][Next]_vars

\* the client with its push channel staying up: the mount, the poll, the
\* votes, and the snapshots of all three sources
NextReconciler ==
  \/ Mount
  \/ Tick
  \/ PullResponse(Payloads, {"low"})
  \/ PullFailure
  \/ Click({"low"})
  \/ VoteResponse(Payloads, {"low"})
  \/ VoteFailure
  \/ SocketOpen
  \/ SocketMessage(Messages, {"low"})

SpecReconciler == Init /\ [][NextReconciler]_vars

\* the push channel and the pull through mounts and unmounts, without votes
NextConnection ==
  \/ Mount
  \/ Unmount
  \/ Tick
  \/ PullResponse(LeanPayloads, {"low"})
  \/ PullFailure
  \/ SocketOpen
  \/ SocketMessage(LeanPayloads \cup {InvalidJson}, {"low"})
  \/ SocketFail
  \/ SocketClose
  \/ ReconnectTimer

SpecConnection == Init /\ [][NextConnection]_vars

\* one mounted session of the client: the votes, the pulls and a push
\* channel that fails, closes and reconnects
NextSession ==
  \/ Mount
  \/ Tick
  \/ PullResponse(LeanPayloads, {"low"})
  \/ PullFailure
  \/ Click({"low"})
  \/ VoteResponse(LeanPayloads, {"low"})
  \/ VoteFailure
  \/ SocketOpen
  \/ SocketMessage(LeanPayloads \cup {InvalidJson}, {"low"})
  \/ SocketFail
  \/ SocketClose
  \/ ReconnectTimer

SpecSession == Init /\ [][NextSession]_vars

\* the pull alone, bringing every pair of scores to the render
NextRender ==
  \/ Mount
  \/ Tick
  \/ PullResponse(ScoreSnapshots, {"low"})

SpecRender == Init /\ [][NextRender]_vars

\* the server's state stops changing, at one of the full snapshots
Settle ==
  /\ server = Unsettled
  /\ server' \in FullSnapshots
  /\ UNCHANGED << scores, error, isOnline, hypeMessage, matchState, winner,
                  matchesPlayed, countdown, winScore, victoryMessage,
                  pendingUpdates, wsRef, reconnectTimerRef, mounted, interval,
                  votesInFlight, posted, pullsInFlight, sockets, timers,
                  accepted, dropped >>

\* a GET /scores succeeds with the settled state of the server
SettledPull ==
  /\ server # Unsettled
  /\ PullResponse({server}, {"low"})

\* a push message carries the settled state of the server, or no snapshot
SettledPush ==
  /\ server # Unsettled
  /\ SocketMessage({server, InvalidJson}, {"low"})

\* one session of the client in which the server's state stops changing:
\* from then on no vote is cast and every pull succeeds with that state; a
\* response to a vote cast before can still arrive, or fail
NextConverge ==
  \/ server = Unsettled /\ NextSession
  \/ Settle
  \/ server # Unsettled /\ Mount
  \/ server # Unsettled /\ Tick
  \/ SettledPull
  \/ server # Unsettled /\ VoteResponse(LeanPayloads, {"low"})
  \/ server # Unsettled /\ VoteFailure
  \/ server # Unsettled /\ SocketOpen
  \/ SettledPush
  \/ server # Unsettled /\ SocketFail
  \/ server # Unsettled /\ SocketClose
  \/ server # Unsettled /\ ReconnectTimer

\* the interval keeps firing while it is set, and the pulls keep succeeding
SpecConverge ==
  /\ Init
  /\ [][NextConverge]_vars
  /\ WF_vars(Tick)
  /\ WF_vars(SettledPull)

\* the push channel and the pull, with a WebSocket constructor that can throw
NextReconnect ==
  \/ NextConnection
  \/ MountBlocked
  \/ ReconnectTimerBlocked

SpecReconnect == Init /\ [][NextReconnect]_vars

(***************************************************************************)
(* Properties.                                                             *)
(***************************************************************************)
Other(team) == CHOOSE t \in Teams : t # team

\* the state in which one POST /vote of team has completed
Settled(team) == [State EXCEPT !.votesInFlight[team] = @ - 1]

Pair(a, b) == [team1 |-> a, team2 |-> b]

\* C1: handleVote(side) called while matchState = 'active' raises
\* scores[side] and pendingUpdates[side] by exactly 1, leaves the other
\* side's score and pending entry alone, and issues exactly one POST /vote,
\* for that side.
C1_VoteApplied ==
  \A team \in Teams, x \in RandomDraws :
    matchState = Str("active") =>
      \A s \in {handleVote(State, team, x)}, other \in {Other(team)} :
          /\ s.scores[team] = Plus(scores[team], 1)
          /\ s.pendingUpdates[team] = pendingUpdates[team] + 1
          /\ s.scores[other] = scores[other]
          /\ s.pendingUpdates[other] = pendingUpdates[other]
          /\ s.votesInFlight[team] = votesInFlight[team] + 1
          /\ s.votesInFlight[other] = votesInFlight[other]
          /\ s.posted = posted + 1

\* a first vote for team1 has just been applied and sent
C1_Voted ==
  /\ matchState = Str("active")
  /\ scores = Pair(Num(1), Num(0))
  /\ pendingUpdates = Pair(1, 0)
  /\ votesInFlight = Pair(1, 0)
  /\ posted = 1

\* C2: handleVote(side) called while matchState is not 'active' changes
\* nothing: scores, pendingUpdates, connectivity and match state stay as
\* they are and no POST /vote is issued.
C2_VoteIgnored ==
  \A team \in Teams, x \in RandomDraws :
    matchState # Str("active") => handleVote(State, team, x) = State

\* a click has just been handled in a won match, and nothing was sent
C2_ClickedWhenOver ==
  /\ dropped
  /\ matchState = Str("victory")
  /\ scores = Pair(Num(2), Num(1))
  /\ pendingUpdates = ZeroPair
  /\ posted = 0
  /\ accepted = 0

\* C3: applying a snapshot whose team1 and team2 are both valid scores makes
\* scores exactly the snapshot's pair, whatever the local value was, zeroes
\* both pendingUpdates entries, and sets isOnline = true and error = null.
C3_ScoresOverwritten ==
  \A data \in Payloads, x \in RandomDraws :
    (~Throws(data) /\ IsNonNegInt(data.team1) /\ IsNonNegInt(data.team2)) =>
      \A s \in {applyServerState(State, data, x)} :
          /\ s.scores = Pair(data.team1, data.team2)
          /\ s.pendingUpdates = ZeroPair
          /\ s.isOnline
          /\ s.error = NoError

\* a push has replaced the optimistic score of a vote that is still in
\* flight by the snapshot's {2, 1}
C3_OverwroteOptimistic ==
  /\ votesInFlight = Pair(1, 0)
  /\ posted = 1
  /\ scores = Pair(Num(2), Num(1))
  /\ pendingUpdates = ZeroPair
  /\ isOnline
  /\ error = NoError

\* C4: from every state with matchState = 'active' and for each side,
\* handleVote(side) followed at once by the failure of that vote restores
\* scores[side] and pendingUpdates[side] to their values before the vote and
\* leaves isOnline = false.
C4_RevertRestores ==
  \A team \in Teams, x \in RandomDraws :
    matchState = Str("active") =>
      \A s2 \in {postVoteCatch([handleVote(State, team, x)
                                  EXCEPT !.votesInFlight[team] = @ - 1],
                                team)} :
          /\ s2.scores[team] = scores[team]
          /\ s2.pendingUpdates[team] = pendingUpdates[team]
          /\ ~s2.isOnline

\* {0,0} -> {1,0} -> {0,0}: the only vote has failed and was reverted
C4_Reverted ==
  /\ posted = 1
  /\ votesInFlight = ZeroPair
  /\ scores = Pair(Num(0), Num(0))
  /\ pendingUpdates = ZeroPair
  /\ ~isOnline
  /\ error = ErrRevert

\* what the idempotence of applyServerState is about
Reconciled(s) ==
  << s.scores, s.matchState, s.winner, s.matchesPlayed, s.countdown,
     s.winScore, s.pendingUpdates >>

\* C5: applying a snapshot twice in a row yields the same scores,
\* matchState, winner, matchesPlayed, countdown, winScore and pendingUpdates
\* as applying it once (the two applications drawing different random
\* numbers).
C5_Idempotent ==
  \A data \in Payloads :
    ~Throws(data) =>
      \A s1 \in {applyServerState(State, data, "low")} :
        \A s2 \in {applyServerState(s1, data, "high")} :
          Reconciled(s2) = Reconciled(s1)

\* the victory snapshot has just been pushed over a vote in flight, and
\* pushing it again would change nothing
C5_AppliedAgain ==
  /\ votesInFlight = Pair(0, 1)
  /\ scores = Pair(Num(2), Num(1))
  /\ matchState = Str("victory")
  /\ Reconciled(applyServerState(State, Victory, "high")) = Reconciled(State)

ValidMatchState(v) == v \in {Str("active"), Str("victory"), Str("countdown")}
ValidWinner(v) == v \in {Null, Str("team1"), Str("team2")}

C7_ScoresNonNegative == \A team \in Teams : IsNonNegInt(scores[team])

\* C8: a failed vote submission causes exactly one revert (scores[side] and
\* pendingUpdates[side] go down by 1, isOnline becomes false) and the vote is
\* not sent again: the POST /vote requests issued so far are as many as the
\* handleVote calls accepted so far.
C8_OneRevertNoRetry ==
  /\ posted = accepted
  /\ \A team \in Teams :
       votesInFlight[team] > 0 =>
         \A s \in {postVoteCatch(Settled(team), team)} :
             /\ s.scores[team] = Plus(scores[team], -1)
             /\ s.pendingUpdates[team] = pendingUpdates[team] - 1
             /\ ~s.isOnline
             /\ s.posted = posted
             /\ s.votesInFlight[team] = votesInFlight[team] - 1

\* the only vote, for team2, has failed after the snapshot {2, 1} had replaced
\* its optimistic score: it was reverted once and not sent again
C8_VoteFailed ==
  /\ accepted = 1
  /\ posted = 1
  /\ votesInFlight = ZeroPair
  /\ scores = Pair(Num(2), Num(0))
  /\ pendingUpdates = Pair(0, -1)
  /\ error = ErrRevert
  /\ ~isOnline

\* C9: when a vote submission for a side completes successfully,
\* pendingUpdates[side] is 0 once the response is processed, whatever fields
\* the response snapshot carries.
C9_LedgerZeroAfterAck ==
  \A team \in Teams, data \in ObjectPayloads, x \in RandomDraws :
    votesInFlight[team] > 0 =>
      postVoteThen(Settled(team), team, data, x).pendingUpdates[team] = 0

\* C10: isMatchOver is true if and only if matchState is not 'active', for
\* every matchState value a snapshot can install.
C10_MatchOverIffNotActive ==
  isMatchOver(State) <=> matchState # Str("active")

\* C11: in every reachable state matchState is one of 'active', 'victory'
\* and 'countdown' (a snapshot carrying any other value does not change it).
C11_MatchStateEnumerated == ValidMatchState(matchState)

\* the five server-declared match fields
MatchFields == << matchState, winner, matchesPlayed, countdown, winScore >>

\* a step that applies a server snapshot: a pull response, a vote response
\* or a push message, with any payload and any random draw
SnapshotApplied ==
  \/ PullResponse(Payloads, RandomDraws)
  \/ VoteResponse(Payloads, RandomDraws)
  \/ SocketMessage(Messages, RandomDraws)

\* C12: matchState, winner, matchesPlayed, countdown and winScore change
\* only in a step that applies a server snapshot; every other step (a vote,
\* a vote failure, a pull failure, a channel open, error or close, a timer,
\* mount and unmount) leaves all five unchanged.
C12_MatchFieldsFrame == [][UNCHANGED MatchFields \/ SnapshotApplied]_vars

\* the channel has failed and a pull has been issued since the victory
\* snapshot was applied, and the match fields are still the snapshot's
C12_FailedAfterVictory ==
  /\ MatchFields = << Str("victory"), Str("team1"), Num(1), Num(3), Num(50) >>
  /\ wsRef = 0
  /\ timers # {}
  /\ pullsInFlight = 1
  /\ error = ErrSync

\* the position of a lifecycle value in the order of one match
Phase(ms) ==
  CASE ms = Str("active") -> 0
    [] ms = Str("victory") -> 1
    [] ms = Str("countdown") -> 2

\* a move of matchState from a to b that follows the lifecycle order: forward
\* within the match, or from the countdown to the next match; a move from or
\* to a value outside the lifecycle is the subject of C11 and is let pass
InLifecycleOrder(a, b) ==
  \/ a = b
  \/ ~ValidMatchState(a)
  \/ ~ValidMatchState(b)
  \/ Phase(a) < Phase(b)
  \/ a = Str("countdown") /\ b = Str("active")

\* C13: matchState moves only along the lifecycle order active -> victory ->
\* countdown -> active; it never steps from 'victory' back to 'active' or
\* from 'countdown' back to 'victory'.
C13_LifecycleOrder == [][InLifecycleOrder(matchState, matchState')]_vars

\* a step that applies the snapshot data, whichever source delivers it
Delivered(data) ==
  \/ PullResponse({data}, RandomDraws)
  \/ VoteResponse({data}, RandomDraws)
  \/ SocketMessage({data}, RandomDraws)

\* C13 (amended): matchState is driven by the server's snapshots alone: it
\* changes only in a step that applies a snapshot carrying a matchState, and
\* it is then that snapshot's matchState, whatever the current phase is.
C13_ServerDriven ==
  [][matchState' # matchState =>
       \E data \in Payloads :
         /\ Truthy(data.matchState)
         /\ data.matchState = matchState'
         /\ Delivered(data)]_vars

\* a click was dropped while the match was over, and a later snapshot has
\* made the match active again
C13_ActiveAgain ==
  /\ dropped
  /\ matchState = Str("active")
  /\ winner = Null
  /\ scores = Pair(Num(0), Num(0))

\* C14: applying a snapshot that carries 'victory' or 'countdown' while
\* matchState is already not 'active' selects no new victory message:
\* victoryMessage is unchanged.
C14_VictoryMessageOnce ==
  \A data \in Payloads, x \in RandomDraws :
    (/\ ~Throws(data)
     /\ matchState # Str("active")
     /\ data.matchState \in {Str("victory"), Str("countdown")}) =>
      applyServerState(State, data, x).victoryMessage = victoryMessage

\* nothing has been requested yet: the effect has not run, no socket was
\* created, no pull and no vote was issued
NoExchangeYet ==
  /\ ~mounted
  /\ Len(sockets) = 0
  /\ pullsInFlight = 0
  /\ posted = 0

\* C15: isOnline = true implies that a successful exchange with the server
\* has happened; before any exchange has completed the client is not
\* reported as online.
C15_OnlineOnlyAfterExchange == isOnline => ~NoExchangeYet

\* socket i after its connection has gone
Gone(i) == [State EXCEPT !.sockets[i] = "CLOSED"]

\* the client is offline after each of: the error of a socket, the failure
\* of a pull, the failure of a vote
OfflineAfterFailure ==
  /\ \A i \in DOMAIN sockets :
       sockets[i] # "CLOSED" => ~onerror(Gone(i), i).isOnline
  /\ pullsInFlight > 0 =>
       ~fetchScoresCatch([State EXCEPT !.pullsInFlight = @ - 1]).isOnline
  /\ \A team \in Teams :
       votesInFlight[team] > 0 => ~postVoteCatch(Settled(team), team).isOnline

\* C16: every transport failure sets isOnline = false: a push-channel
\* error, a push-channel close, a failed pull and a failed vote each leave
\* the client offline.
C16_EveryFailureOffline ==
  /\ OfflineAfterFailure
  /\ \A i \in DOMAIN sockets :
       sockets[i] \in {"OPEN", "CLOSING"} => ~onclose(Gone(i), i).isOnline

\* C16 (amended): a push-channel error, a failed pull and a failed vote each
\* leave the client offline; a push-channel close by itself leaves isOnline
\* as it was.
C16_FailureOfflineCloseNeutral ==
  /\ OfflineAfterFailure
  /\ \A i \in DOMAIN sockets :
       sockets[i] \in {"OPEN", "CLOSING"} =>
         onclose(Gone(i), i).isOnline = isOnline

\* the channel is open and no vote was sent, and the client is offline:
\* a pull has failed since the channel opened
C16_PullFailedWhileOpen ==
  /\ wsRef # 0
  /\ sockets[wsRef] = "OPEN"
  /\ posted = 0
  /\ pullsInFlight = 0
  /\ ~isOnline
  /\ error = ErrSync

\* what the component renders from, the connectivity state aside
Rendered ==
  << scores, hypeMessage, matchState, winner, matchesPlayed, countdown,
     winScore, victoryMessage, pendingUpdates >>

\* C17: a push-channel close event by itself leaves isOnline and error (and
\* the rest of the component's state) unchanged: it clears the connection
\* reference and schedules a reconnect; a channel error event leaves
\* isOnline = false and the 'Server offline' error, with the channel closed.
C17_CloseNeutralErrorOffline ==
  [][/\ SocketClose =>
          /\ UNCHANGED << isOnline, error, Rendered >>
          /\ wsRef' = 0
          /\ reconnectTimerRef' \in timers'
     /\ SocketFail =>
          /\ ~isOnline'
          /\ error' = ErrSync
          /\ UNCHANGED Rendered
          /\ wsRef' = 0
          /\ \A i \in DOMAIN sockets :
               sockets'[i] # sockets[i] => sockets'[i] = "CLOSED"]_vars

\* the only socket has closed cleanly, its reconnect is pending, and the
\* client is still online without an error
C17_ClosedStillOnline ==
  /\ sockets = << "CLOSED" >>
  /\ wsRef = 0
  /\ timers = {1}
  /\ isOnline
  /\ error = NoError

\* s reports the client online, without an error
OnlineNoError(s) == s.isOnline /\ s.error = NoError

\* C18: whenever a pull or a vote request completes successfully, whatever
\* fields its snapshot carries, or the channel opens, isOnline = true and
\* error = null immediately afterwards.
C18_OnlineAfterSuccess ==
  /\ \A data \in ObjectPayloads, x \in RandomDraws :
       /\ pullsInFlight > 0 =>
            OnlineNoError(fetchScoresThen(
                            [State EXCEPT !.pullsInFlight = @ - 1], data, x))
       /\ \A team \in Teams :
            votesInFlight[team] > 0 =>
              OnlineNoError(postVoteThen(Settled(team), team, data, x))
  /\ \A i \in DOMAIN sockets :
       sockets[i] = "CONNECTING" =>
         OnlineNoError(onopen([State EXCEPT !.sockets[i] = "OPEN"]))

\* the sockets the client has created that are connecting or connected
LiveSockets == {i \in DOMAIN sockets : sockets[i] \in {"CONNECTING", "OPEN"}}

\* C19: at most one WebSocket created by the client is in CONNECTING or OPEN
\* state, and connectWebSocket creates no connection when one is connected.
C19_SingleConnection ==
  /\ Cardinality(LiveSockets) <= 1
  /\ (wsRef # 0 /\ sockets[wsRef] = "OPEN") => connectWebSocket(State) = State

\* C20: each close of the push channel, after an error or not, schedules
\* exactly one reconnect attempt, and at most one reconnect timer is pending
\* at any time.
C20_OneReconnectPerClose ==
  [][/\ (SocketClose \/ SocketFail) =>
          /\ timers \subseteq timers'
          /\ Cardinality(timers') = Cardinality(timers) + 1
     /\ Cardinality(timers') <= 1]_vars

\* the push channel is disconnected for good: no socket is connecting or
\* open, and none is closing (its close event is still to come)
Disconnected == \A i \in DOMAIN sockets : sockets[i] = "CLOSED"

\* C21: while the component is mounted, whenever the push channel is
\* disconnected a new connection attempt is to come, whichever way the
\* previous attempt failed: a reconnect timeout is pending.
C21_ReconnectPending == (mounted /\ Disconnected) => timers # {}

\* the push messages that carry no snapshot: text that is not JSON, JSON
\* null, and a JSON value that is not an object
Unparseable == {InvalidJson, NullBody, TextBody}

\* C22: a push message whose payload cannot be parsed as a snapshot is
\* discarded: scores, pendingUpdates, matchState, isOnline and error are
\* unchanged, the connection stays open, and a later message is processed
\* as if the discarded one had never arrived.
C22_MalformedDiscarded ==
  \A i \in DOMAIN sockets :
    sockets[i] = "OPEN" =>
      \A raw \in Unparseable :
        \A s \in {onmessage(State, raw, "low")} :
          /\ s.scores = scores
          /\ s.pendingUpdates = pendingUpdates
          /\ s.matchState = matchState
          /\ s.isOnline = isOnline
          /\ s.error = error
          /\ s.sockets = sockets
          /\ s.wsRef = wsRef
          /\ onmessage(s, Victory, "low")
               = applyServerState(State, Victory, "low")

\* a channel is open while the client is offline, shows the error and has
\* a vote pending: an applied message would change each of them
C22_OpenWhileOfflinePending ==
  /\ \E i \in DOMAIN sockets : sockets[i] = "OPEN"
  /\ ~isOnline
  /\ error # NoError
  /\ pendingUpdates # ZeroPair

\* the bodies of a response that carry no snapshot: JSON null and a JSON
\* value that is not an object
MalformedBodies == {NullBody, TextBody}

\* C23: a malformed payload is never surfaced: when a pull or a vote request
\* succeeds at the transport level with a malformed body, isOnline is not
\* set to false, error is not set, and the optimistic vote is not reverted.
C23_MalformedNeverSurfaced ==
  \A data \in MalformedBodies :
    /\ pullsInFlight > 0 =>
         \A s \in {fetchScoresThen(State, data, "low")} :
           s.isOnline = isOnline /\ s.error = error
    /\ \A team \in Teams :
         votesInFlight[team] > 0 =>
           \A s \in {postVoteThen(State, team, data, "low")} :
             s.isOnline = isOnline /\ s.error = error /\ s.scores = scores

\* C24: while the component is mounted a tick issues one pull request, and
\* so does the mount, whatever the state of the push channel and whatever
\* isOnline; a failed pull sets isOnline = false and error to the generic
\* message and leaves scores, pendingUpdates and matchState unchanged.
C24_PullEveryTick ==
  /\ mounted =>
       \A s \in {fetchScores(State)} : s.pullsInFlight = pullsInFlight + 1
  /\ ~mounted =>
       \A s \in {effect(State)} : s.pullsInFlight = pullsInFlight + 1
  /\ pullsInFlight > 0 =>
       \A s \in {fetchScoresCatch(State)} :
         /\ ~s.isOnline
         /\ s.error = ErrSync
         /\ s.scores = scores
         /\ s.pendingUpdates = pendingUpdates
         /\ s.matchState = matchState

\* a pull has failed while the channel was open, and the next tick has
\* issued another pull with the client offline and the channel still open
C24_PulledWhileOfflineAndOpen ==
  /\ mounted
  /\ wsRef # 0
  /\ sockets[wsRef] = "OPEN"
  /\ ~isOnline
  /\ error = ErrSync
  /\ pullsInFlight = 1

\* C25: after the unmount the poll timer is cancelled: the torn-down
\* instance issues no further pull request.
C25_NoPullAfterUnmount ==
  [][(~mounted /\ ~mounted') => pullsInFlight' <= pullsInFlight]_vars

\* the component has been unmounted, and no pull is in flight: a tick of a
\* surviving interval would issue one
C25_Unmounted ==
  /\ ~mounted
  /\ sockets # <<>>
  /\ pullsInFlight = 0

\* C26: after the unmount no reconnect is left pending and none is newly
\* scheduled: neither the close of the channel by the cleanup nor a close
\* event after it leads to a later connectWebSocket call.
C26_NoReconnectAfterUnmount == ~mounted => timers = {}

\* the client shows the scores and the matchState of the settled server
Converged ==
  /\ scores = [team1 |-> server.team1, team2 |-> server.team2]
  /\ matchState = server.matchState

\* C27: if the server's state stops changing, no further vote is cast and
\* the pulls keep succeeding with full snapshots, then the scores and the
\* matchState of a mounted client eventually equal the server's and stay
\* equal.
C27_Converges == <>[](server = Unsettled \/ ~mounted \/ Converged)

\* the server has settled on the won match and the client, whose one vote
\* has been answered, shows that state
C27_CaughtUp ==
  /\ server = Victory
  /\ mounted
  /\ Converged
  /\ error = NoError
  /\ accepted = 1
  /\ posted = 1
  /\ votesInFlight = ZeroPair

\* C28: for scores that are non-negative integers, team1Pct and team2Pct are
\* both 50 when the total is 0; otherwise each is 100 * score / total
\* rounded to the nearest integer, a half rounded up, and lies in 0..100.
C28_Percentages ==
  LET a == scores.team1.num
      b == scores.team2.num
      HalfUp(n, d) == (2 * n + d) \div (2 * d)
  IN  (IsNonNegInt(scores.team1) /\ IsNonNegInt(scores.team2)) =>
        IF a + b = 0
        THEN team1Pct(State) = 50 /\ team2Pct(State) = 50
        ELSE /\ team1Pct(State) = HalfUp(100 * a, a + b)
             /\ team2Pct(State) = HalfUp(100 * b, a + b)
             /\ team1Pct(State) \in 0..100
             /\ team2Pct(State) \in 0..100

\* the messages of a pool
Pool(messages) == {messages[i] : i \in DOMAIN messages}

\* C29: when a vote submission fails, hypeMessage is set to a member of
\* OFFLINE_MESSAGES, a pool that shares no message with HYPE_MESSAGES.
C29_OfflineFeedbackOnFailure ==
  [][VoteFailure =>
       /\ hypeMessage' \in Pool(OFFLINE_MESSAGES)
       /\ Pool(OFFLINE_MESSAGES) \cap Pool(HYPE_MESSAGES) = {}]_vars

\* twice the sum of two scores that are numbers
TwiceTotal(pair) ==
  2 * (pair.team1.num + pair.team2.num)
    + (IF pair.team1.half THEN 1 ELSE 0) + (IF pair.team2.half THEN 1 ELSE 0)

\* C30: over a sequence of accepted handleVote calls, with no revert and no
\* snapshot in between, scores.team1 and scores.team2 never decrease and
\* their sum grows by exactly 1 per call (here: two calls in a row, from
\* every state in which the match is active).
C30_VotesMonotone ==
  matchState = Str("active") =>
    \A first \in Teams, second \in Teams :
      \A s1 \in {handleVote(State, first, "low")} :
        \A s2 \in {handleVote(s1, second, "high")} :
          /\ \A team \in Teams :
               /\ ~Greater(scores[team], s1.scores[team])
               /\ ~Greater(s1.scores[team], s2.scores[team])
          /\ TwiceTotal(s1.scores) = TwiceTotal(scores) + 2
          /\ TwiceTotal(s2.scores) = TwiceTotal(s1.scores) + 2

\* a vote has been accepted on top of the scores of a snapshot
C30_VotedOnSnapshot ==
  /\ accepted = 1
  /\ matchState = Str("active")
  /\ scores = [team1 |-> Num(1), team2 |-> Num(1)]
  /\ pendingUpdates = [team1 |-> 0, team2 |-> 1]

\* C31: for each side, pendingUpdates[side] is never negative and never
\* exceeds the number of that side's vote submissions still in flight.
C31_LedgerWithinInFlight ==
  \A team \in Teams :
    /\ pendingUpdates[team] >= 0
    /\ pendingUpdates[team] <= votesInFlight[team]

\* C32: snapshots take effect in the order the server produced them: once
\* the client shows the last state of the server (the won match), no
\* response that was produced earlier replaces it.
C32_ServerOrder ==
  [][(server = Victory /\ Converged /\ ~VoteFailure) => Converged']_vars

\* snapshots take effect in the order they arrive: a full snapshot that
\* arrives in a pull or a vote response after a newer one was pushed
\* replaces it, and leaves exactly what it would have left without the
\* newer one
C32_ArrivalOrder ==
  \A newer \in FullSnapshots, older \in FullSnapshots, team \in Teams :
    \A pushed \in {onmessage(State, newer, "low")} :
      /\ Reconciled(fetchScoresThen(pushed, older, "low"))
           = Reconciled(applyServerState(State, older, "low"))
      /\ Reconciled(postVoteThen(pushed, team, older, "low"))
           = Reconciled(applyServerState(State, older, "low"))

\* the server has settled on the won match, and the client, with its vote
\* answered and no pull in flight, shows the match before it
C32_ShowsOlder ==
  /\ server = Victory
  /\ mounted
  /\ accepted = 1
  /\ votesInFlight = ZeroPair
  /\ pullsInFlight = 0
  /\ scores = [team1 |-> Reset.team1, team2 |-> Reset.team2]
  /\ matchState = Reset.matchState
  /\ winScore = Reset.winScore

\* the step changes the scores or the pending ledger
LedgerStep == scores' # scores \/ pendingUpdates' # pendingUpdates

\* the step applies a snapshot that carries two numeric scores
ScoresApplied ==
  \E data \in Messages :
    /\ HasScores(data)
    /\ scores' = [team1 |-> data.team1, team2 |-> data.team2]
    /\ pendingUpdates' = ZeroPair

\* the step reverts a vote whose submission has failed
VoteReverted ==
  \E team \in Teams :
    /\ votesInFlight[team] > 0
    /\ votesInFlight' = [votesInFlight EXCEPT ![team] = @ - 1]
    /\ scores' = [scores EXCEPT ![team] = Plus(@, -1)]
    /\ pendingUpdates' = [pendingUpdates EXCEPT ![team] = @ - 1]

\* C33: scores are frozen while the match is over: with matchState not
\* 'active', the scores and pendingUpdates change only when a snapshot
\* that carries valid scores is applied; no vote attempt and no failure of
\* an earlier vote changes them.
C33_FrozenWhenOver ==
  [][(matchState # Str("active") /\ LedgerStep) => ScoresApplied]_vars

\* with matchState not 'active', the scores and pendingUpdates change only
\* when a snapshot that carries numeric scores is applied or when a vote
\* submitted earlier fails and is reverted
C33_FrozenButForRevert ==
  [][(matchState # Str("active") /\ LedgerStep)
       => (ScoresApplied \/ VoteReverted)]_vars

\* the vote cast before the countdown began has failed during it and has
\* been reverted
C33_RevertedWhenOver ==
  /\ matchState = Str("countdown")
  /\ accepted = 1
  /\ votesInFlight = ZeroPair
  /\ error = ErrRevert
  /\ scores = [team1 |-> Num(0), team2 |-> Num(0)]
  /\ pendingUpdates = ZeroPair

\* C34: isOnline = true implies error = null, and isOnline = false implies
\* that error is a message: the flag and the error field never disagree.
C34_FlagAndErrorAgree == isOnline <=> (error = NoError)

\* C35: for non-negative integer scores with a total above 0, the two
\* percentage shares add up to exactly 100.
C35_SharesAddUp ==
  (/\ IsNonNegInt(scores.team1)
   /\ IsNonNegInt(scores.team2)
   /\ totalVotes(State) > 0)
    => team1Pct(State) + team2Pct(State) = 100

\* twice a score that is a number
Twice(v) == 2 * v.num + (IF v.half THEN 1 ELSE 0)

\* C36: getLeader returns 'team1' exactly when scores.team1 > scores.team2,
\* 'team2' exactly when scores.team2 > scores.team1, and 'tie' exactly when
\* they are equal, the scores being numbers in every reachable state.
C36_Leader ==
  /\ IsNumber(scores.team1)
  /\ IsNumber(scores.team2)
  /\ getLeader(State) = "team1" <=> Twice(scores.team1) > Twice(scores.team2)
  /\ getLeader(State) = "team2" <=> Twice(scores.team2) > Twice(scores.team1)
  /\ getLeader(State) = "tie" <=> Twice(scores.team1) = Twice(scores.team2)

\* a vote for team2 was overwritten by a snapshot and then reverted: team1
\* leads over a negative score
C36_LeadsAfterRevert ==
  /\ error = ErrRevert
  /\ scores = [team1 |-> Num(1), team2 |-> Num(-1)]
  /\ getLeader(State) = "team1"

====
